---- MODULE Spec2Model ----
(***************************************************************************)
(* Model of app.py, the sales dashboard: load_data() (read, drop           *)
(* duplicates, parse dates, derive Year and Profit Margin), the sidebar    *)
(* selection, the filtered and previous-year frames, the KPIs, the four    *)
(* grouped rollups and the growth message.  Every user interaction reruns  *)
(* the whole script; load_data is served from st.cache_data.               *)
(*                                                                         *)
(* Money amounts are integers; quotients are exact fractions <<n, d>> in   *)
(* lowest terms with d > 0.                                                *)
(***************************************************************************)
EXTENDS Integers, Sequences, FiniteSets

VARIABLES
    source,             \* rows of "Sample - Superstore.csv" as read_csv returns them
    cache,              \* st.cache_data entry of load_data: <<>> or <<dataset>>
    df,                 \* df = load_data()
    years,              \* sorted(df["Year"].dropna().unique())
    regions,            \* sorted(df["Region"].unique())
    categories,         \* sorted(df["Category"].unique())
    selected_year,
    selected_region,
    selected_category,
    filtered_df,
    previous_df,
    total_revenue,
    total_profit,
    margin,
    margin_pct,         \* margin * 100, the value of the "Profit Margin" card
    prev_revenue,
    revenue_growth,
    monthly,
    category,
    region,
    top_products,
    message,            \* the st.success / st.error line at the bottom
    phase               \* "start": script not yet run; "ready": a run completed;
                        \* "crashed": the run raised

vars == <<source, cache, df, years, regions, categories, selected_year,
          selected_region, selected_category, filtered_df, previous_df,
          total_revenue, total_profit, margin, margin_pct, prev_revenue,
          revenue_growth, monthly, category, region, top_products, message, phase>>

(***************************************************************************)
(* Bounds of the model.                                                    *)
(***************************************************************************)
\* Number of rows of a source file, drawn freely from RowPool.
MaxRows == 3

\* Number of rows from RowPool that follow the Catalogue in a source file.
MaxExtra == 2

(***************************************************************************)
(* Arithmetic helpers.                                                     *)
(***************************************************************************)
Abs(x) == IF x < 0 THEN -x ELSE x

Min(a, b) == IF a <= b THEN a ELSE b

RECURSIVE GCD(_, _)
GCD(a, b) == IF b = 0 THEN a ELSE GCD(b, a % b)

\* The quotient n / d (d # 0) as a fraction in lowest terms, denominator > 0.
Frac(n, d) ==
    LET g == GCD(Abs(n), Abs(d))
        s == IF d < 0 THEN -1 ELSE 1
    IN  <<(s * n) \div g, Abs(d) \div g>>

Zero == <<0, 1>>

\* q * k for a fraction q and an integer k.
Times(q, k) == Frac(q[1] * k, q[2])

IsPositive(q) == q[1] > 0

AbsFrac(q) == <<Abs(q[1]), q[2]>>

\* format(q, ".1f") for q >= 0: the number of tenths, ties to even.
Fmt1(q) ==
    LET n10 == q[1] * 10
        lo  == n10 \div q[2]
        r2  == 2 * (n10 % q[2])
    IN  IF r2 < q[2] THEN lo
        ELSE IF r2 > q[2] THEN lo + 1
        ELSE IF lo % 2 = 0 THEN lo ELSE lo + 1

Range(s) == {s[i] : i \in DOMAIN s}

SeqUpTo(S, n) == UNION {[1..k -> S] : k \in 0..n}

\* sorted(S) for a finite set of integers.
RECURSIVE SortInts(_)
SortInts(S) ==
    IF S = {} THEN <<>>
    ELSE LET m == CHOOSE x \in S : \A y \in S : y <= x
         IN  Append(SortInts(S \ {m}), m)

(***************************************************************************)
(* The input file.                                                         *)
(***************************************************************************)
\* Python's string order on the labels that occur in the model.
Alphabetical ==
    <<"Binder", "Chair", "Desk", "East", "Lamp", "Office", "Shelf", "Table",
      "Tech", "West">>

Rank(s) == CHOOSE i \in DOMAIN Alphabetical : Alphabetical[i] = s

\* sorted(S) for a finite set of labels.
SortLabels(S) ==
    LET ranks == SortInts({Rank(s) : s \in S})
    IN  [i \in DOMAIN ranks |-> Alphabetical[ranks[i]]]

NaT == [y |-> 0, m |-> 0, d |-> 0]

NaN == 0

Row(date, sales, profit, reg, cat, product) ==
    [OrderDate |-> date, Sales |-> sales, Profit |-> profit, Region |-> reg,
     Category |-> cat, ProductName |-> product]

\* Rows a source file is drawn from: two spellings of one date, a loss, a
\* sale of zero, two years, two unparseable dates.
RowPool ==
    { Row("1/5/2014",   2,  1, "East", "Tech",   "Chair"),
      Row("01/05/2014", 2,  1, "East", "Tech",   "Chair"),
      Row("3/9/2014",   1, -2, "West", "Office", "Desk"),
      Row("7/7/2015",   3, -1, "East", "Office", "Binder"),
      Row("7/7/2015",   0, -1, "West", "Tech",   "Desk"),
      Row("2/8/2015",   1,  1, "West", "Tech",   "Binder"),
      Row("bad",        1,  1, "East", "Tech",   "Lamp"),
      Row("TBD",        1,  1, "East", "Tech",   "Lamp") }

\* A file with six products in one year, with equal sales among them, listed
\* in an order that is not the alphabetical one.
Catalogue ==
    << Row("7/7/2015", 1, 1, "East", "Tech",   "Lamp"),
       Row("7/7/2015", 2, 1, "East", "Tech",   "Desk"),
       Row("2/8/2015", 2, 0, "West", "Tech",   "Chair"),
       Row("2/8/2015", 1, 1, "East", "Office", "Binder"),
       Row("7/7/2015", 1, 2, "West", "Office", "Shelf"),
       Row("2/8/2015", 3, 1, "East", "Office", "Table") >>

(***************************************************************************)
(* load_data                                                               *)
(***************************************************************************)
\* DataFrame.drop_duplicates(): keep the first of every group of equal rows.
RECURSIVE drop_duplicates(_)
drop_duplicates(rows) ==
    IF rows = <<>> THEN <<>>
    ELSE LET n    == Len(rows)
             init == drop_duplicates(SubSeq(rows, 1, n - 1))
         IN  IF \E i \in 1..(n - 1) : rows[i] = rows[n]
             THEN init
             ELSE Append(init, rows[n])

\* pd.to_datetime(text, errors="coerce") on month/day/year text.
to_datetime(text) ==
    CASE text = "1/5/2014"   -> [y |-> 2014, m |-> 1, d |-> 5]
      [] text = "01/05/2014" -> [y |-> 2014, m |-> 1, d |-> 5]
      [] text = "3/9/2014"   -> [y |-> 2014, m |-> 3, d |-> 9]
      [] text = "7/7/2015"   -> [y |-> 2015, m |-> 7, d |-> 7]
      [] text = "2/8/2015"   -> [y |-> 2015, m |-> 2, d |-> 8]
      [] OTHER               -> NaT

\* Series.dt.year: NaN for NaT.
dt_year(date) == IF date = NaT THEN NaN ELSE date.y

\* np.where(Sales != 0, Profit / Sales, 0)
profit_margin(sales, profit) == IF sales # 0 THEN Frac(profit, sales) ELSE Zero

load_data(src) ==
    LET d == drop_duplicates(src)
    IN  [i \in 1..Len(d) |->
            LET date == to_datetime(d[i].OrderDate)
            IN  [OrderDate    |-> date,
                 Sales        |-> d[i].Sales,
                 Profit       |-> d[i].Profit,
                 Region       |-> d[i].Region,
                 Category     |-> d[i].Category,
                 ProductName  |-> d[i].ProductName,
                 Year         |-> dt_year(date),
                 ProfitMargin |-> profit_margin(d[i].Sales, d[i].Profit)]]

\* @st.cache_data: the stored value when there is one, else a fresh load.
cached_load(entry, src) == IF entry = <<>> THEN load_data(src) ELSE entry[1]

(***************************************************************************)
(* Sidebar options and the two frames                                      *)
(***************************************************************************)
year_options(data) == SortInts({data[i].Year : i \in DOMAIN data} \ {NaN})

region_options(data) == {data[i].Region : i \in DOMAIN data}

category_options(data) == {data[i].Category : i \in DOMAIN data}

\* Series == scalar: NaN equals nothing.
year_eq(a, b) == a # NaN /\ b # NaN /\ a = b

\* Mutant: the category mask is left out.
filter_rows_no_category(data, year, regs, cats) ==
    LET keep(r) == /\ year_eq(r.Year, year)
                   /\ r.Region \in regs
    IN  SelectSeq(data, keep)

\* Mutant: an empty multiselect is taken to mean "no constraint".
filter_rows_empty_is_all(data, year, regs, cats) ==
    LET keep(r) == /\ year_eq(r.Year, year)
                   /\ (regs = {} \/ r.Region \in regs)
                   /\ (cats = {} \/ r.Category \in cats)
    IN  SelectSeq(data, keep)

filter_rows(data, year, regs, cats) ==
    LET keep(r) == /\ year_eq(r.Year, year)
                   /\ r.Region \in regs
                   /\ r.Category \in cats
    IN  SelectSeq(data, keep)

\* Mutant: the previous year is taken under the region and category masks.
prior_rows_filtered(data, year) ==
    LET keep(r) == /\ year_eq(r.Year, year - 1)
                   /\ r.Region \in selected_region'
                   /\ r.Category \in selected_category'
    IN  SelectSeq(data, keep)

prior_rows(data, year) ==
    LET keep(r) == year_eq(r.Year, year - 1)
    IN  SelectSeq(data, keep)

(***************************************************************************)
(* KPIs                                                                    *)
(***************************************************************************)
RECURSIVE sum_sales(_)
sum_sales(view) ==
    IF view = <<>> THEN 0 ELSE view[1].Sales + sum_sales(Tail(view))

RECURSIVE sum_profit(_)
sum_profit(view) ==
    IF view = <<>> THEN 0 ELSE view[1].Profit + sum_profit(Tail(view))

margin_of(profit, revenue) ==
    IF revenue # 0 THEN Frac(profit, revenue) ELSE Zero

\* Mutant: growth from a zero base is reported as 100%.
growth_of_from_zero(revenue, prev) ==
    IF prev # 0 THEN Times(Frac(revenue - prev, prev), 100)
    ELSE IF revenue > 0 THEN <<100, 1>> ELSE Zero

growth_of(revenue, prev) ==
    IF prev # 0 THEN Times(Frac(revenue - prev, prev), 100) ELSE Zero

\* Mutant: `>=` in place of `>`.
growth_message_ge(growth) ==
    IF growth[1] >= 0
    THEN [widget |-> "success", verb |-> "increased", tenths |-> Fmt1(growth)]
    ELSE [widget |-> "error", verb |-> "declined",
          tenths |-> Fmt1(AbsFrac(growth))]

growth_message(growth) ==
    IF IsPositive(growth)
    THEN [widget |-> "success", verb |-> "increased", tenths |-> Fmt1(growth)]
    ELSE [widget |-> "error", verb |-> "declined",
          tenths |-> Fmt1(AbsFrac(growth))]

(***************************************************************************)
(* Rollups                                                                 *)
(***************************************************************************)
\* Series.dt.to_period("M")
to_period(date) == [y |-> date.y, m |-> date.m]

\* groupby(period)["Sales"].sum().reset_index(): one row per month present,
\* in chronological order.
monthly_of(view) ==
    LET ords == SortInts({view[i].OrderDate.y * 12 + (view[i].OrderDate.m - 1) :
                              i \in {j \in DOMAIN view : view[j].OrderDate # NaT}})
    IN  [i \in DOMAIN ords |->
            LET p == [y |-> ords[i] \div 12, m |-> (ords[i] % 12) + 1]
                in_month(r) == r.OrderDate # NaT /\ to_period(r.OrderDate) = p
            IN  [OrderDate |-> p, Sales |-> sum_sales(SelectSeq(view, in_month))]]

\* Mutant: the Sales column is summed instead of Profit.
category_of_sales(view) ==
    LET keys == SortLabels({view[i].Category : i \in DOMAIN view})
    IN  [i \in DOMAIN keys |->
            LET in_group(r) == r.Category = keys[i]
            IN  [Category |-> keys[i],
                 Profit   |-> sum_sales(SelectSeq(view, in_group))]]

\* groupby("Category")["Profit"].sum().reset_index(): keys in sorted order.
category_of(view) ==
    LET keys == SortLabels({view[i].Category : i \in DOMAIN view})
    IN  [i \in DOMAIN keys |->
            LET in_group(r) == r.Category = keys[i]
            IN  [Category |-> keys[i],
                 Profit   |-> sum_profit(SelectSeq(view, in_group))]]

\* groupby("Region")[["Sales", "Profit"]].sum().reset_index()
region_of(view) ==
    LET keys == SortLabels({view[i].Region : i \in DOMAIN view})
    IN  [i \in DOMAIN keys |->
            LET in_group(r) == r.Region = keys[i]
            IN  [Region |-> keys[i],
                 Sales  |-> sum_sales(SelectSeq(view, in_group)),
                 Profit |-> sum_profit(SelectSeq(view, in_group))]]

\* groupby("Product Name")["Sales"].sum(): keys in sorted order.
product_sales(view) ==
    LET keys == SortLabels({view[i].ProductName : i \in DOMAIN view})
    IN  [i \in DOMAIN keys |->
            LET in_group(r) == r.ProductName = keys[i]
            IN  [ProductName |-> keys[i],
                 Sales       |-> sum_sales(SelectSeq(view, in_group))]]

\* Mutant: ascending order.
RECURSIVE ascending(_)
ascending(entries) ==
    IF entries = {} THEN {<<>>}
    ELSE UNION { {<<e>> \o rest : rest \in ascending(entries \ {e})} :
                 e \in {x \in entries : \A z \in entries : x.Sales <= z.Sales} }

\* Series.sort_values(ascending=False) with the default kind="quicksort",
\* which is not stable: every descending arrangement of the entries is a
\* possible result, equal values in any order.
RECURSIVE descending(_)
descending(entries) ==
    IF entries = {} THEN {<<>>}
    ELSE UNION { {<<e>> \o rest : rest \in descending(entries \ {e})} :
                 e \in {x \in entries : \A z \in entries : z.Sales <= x.Sales} }

sort_values(series) == descending(Range(series))

TopN == 5

\* Mutant: one entry short.
head_short(series, n) == SubSeq(series, 1, Min(n - 1, Len(series)))

\* .head(n)
head(series, n) == SubSeq(series, 1, Min(n, Len(series)))

\* The possible values of top_products.
top_products_of(view) == {head(s, TopN) : s \in sort_values(product_sales(view))}

(***************************************************************************)
(* The script                                                              *)
(***************************************************************************)
Init ==
    /\ source \in SeqUpTo(RowPool, MaxRows)
    /\ cache = <<>>
    /\ df = <<>>
    /\ years = <<>>
    /\ regions = {}
    /\ categories = {}
    /\ selected_year = NaN
    /\ selected_region = {}
    /\ selected_category = {}
    /\ filtered_df = <<>>
    /\ previous_df = <<>>
    /\ total_revenue = 0
    /\ total_profit = 0
    /\ margin = Zero
    /\ margin_pct = Zero
    /\ prev_revenue = 0
    /\ revenue_growth = Zero
    /\ monthly = <<>>
    /\ category = <<>>
    /\ region = <<>>
    /\ top_products = <<>>
    /\ message = [widget |-> "none", verb |-> "none", tenths |-> 0]
    /\ phase = "start"

\* Lines 49-57: the dataset, from the cache when it is there, and the options.
LoadStep ==
    /\ df' = cached_load(cache, source)
    /\ cache' = <<df'>>
    /\ years' = year_options(df')
    /\ regions' = region_options(df')
    /\ categories' = category_options(df')
    /\ UNCHANGED source

\* Lines 63-210 for the widget values (year, regs, cats).
Compute(year, regs, cats) ==
    /\ selected_year' = year
    /\ selected_region' = regs
    /\ selected_category' = cats
    /\ filtered_df' = filter_rows(df', year, regs, cats)
    /\ previous_df' = prior_rows(df', year)
    /\ total_revenue' = sum_sales(filtered_df')
    /\ total_profit' = sum_profit(filtered_df')
    /\ margin' = margin_of(total_profit', total_revenue')
    /\ margin_pct' = Times(margin', 100)
    /\ prev_revenue' = sum_sales(previous_df')
    /\ revenue_growth' = growth_of(total_revenue', prev_revenue')
    /\ monthly' = monthly_of(filtered_df')
    /\ category' = category_of(filtered_df')
    /\ region' = region_of(filtered_df')
    /\ top_products' \in top_products_of(filtered_df')
    /\ message' = growth_message(revenue_growth')
    /\ phase' = "ready"

\* One run of the script with the given widget values.
RunScript(year, regs, cats) ==
    /\ LoadStep
    /\ Compute(year, regs, cats)

\* The first run of a session: every widget at its default (the last year,
\* all regions, all categories).
FirstRun ==
    /\ phase = "start"
    /\ year_options(load_data(source)) # <<>>
    /\ LET data == load_data(source)
           ys   == year_options(data)
       IN  RunScript(ys[Len(ys)], region_options(data), category_options(data))

\* The first run on a file without a single parseable date: the selectbox has
\* no options and returns None, the mask on line 64 is all False, and
\* `selected_year - 1` on line 69 raises TypeError.
FirstRunNoYears ==
    /\ phase = "start"
    /\ year_options(load_data(source)) = <<>>
    /\ LoadStep
    /\ selected_year' = NaN
    /\ selected_region' = regions'
    /\ selected_category' = categories'
    /\ filtered_df' = filter_rows(df', NaN, regions', categories')
    /\ phase' = "crashed"
    /\ UNCHANGED <<previous_df, total_revenue, total_profit, margin,
                   margin_pct, prev_revenue, revenue_growth, monthly, category, region,
                   top_products, message>>

\* The user picks a year in the selectbox; the script reruns.
SelectYear(year) ==
    /\ phase = "ready"
    /\ year \in Range(years)
    /\ RunScript(year, selected_region, selected_category)

\* Mutant: the widget changes but the frames and aggregates of the previous
\* run are kept.
SelectRegionStale(regs) ==
    /\ phase = "ready"
    /\ regs \in SUBSET regions
    /\ selected_region' = regs
    /\ UNCHANGED <<source, cache, df, years, regions, categories,
                   selected_year, selected_category, filtered_df, previous_df,
                   total_revenue, total_profit, margin, margin_pct,
                   prev_revenue, revenue_growth, monthly, category, region,
                   top_products, message, phase>>

\* The user changes the region multiselect; the script reruns.
SelectRegion(regs) ==
    /\ phase = "ready"
    /\ regs \in SUBSET regions
    /\ RunScript(selected_year, regs, selected_category)

\* The user changes the category multiselect; the script reruns.
SelectCategory(cats) ==
    /\ phase = "ready"
    /\ cats \in SUBSET categories
    /\ RunScript(selected_year, selected_region, cats)

Next ==
    \/ FirstRun
    \/ FirstRunNoYears
    \/ \E year \in Range(years) : SelectYear(year)
    \/ \E regs \in SUBSET regions : SelectRegion(regs)
    \/ \E cats \in SUBSET categories : SelectCategory(cats)

Spec == Init /\ [][Next]_vars

\* The same program on short files and on files that begin with the
\* six-product catalogue.
InitCatalogue ==
    /\ source \in {first \o extra : first \in {<<>>, Catalogue},
                                     extra \in SeqUpTo(RowPool, MaxExtra)}
    /\ cache = <<>>
    /\ df = <<>>
    /\ years = <<>>
    /\ regions = {}
    /\ categories = {}
    /\ selected_year = NaN
    /\ selected_region = {}
    /\ selected_category = {}
    /\ filtered_df = <<>>
    /\ previous_df = <<>>
    /\ total_revenue = 0
    /\ total_profit = 0
    /\ margin = Zero
    /\ margin_pct = Zero
    /\ prev_revenue = 0
    /\ revenue_growth = Zero
    /\ monthly = <<>>
    /\ category = <<>>
    /\ region = <<>>
    /\ top_products = <<>>
    /\ message = [widget |-> "none", verb |-> "none", tenths |-> 0]
    /\ phase = "start"

SpecCatalogue == InitCatalogue /\ [][Next]_vars

(***************************************************************************)
(* Vocabulary of the properties, written over the state alone.             *)
(***************************************************************************)
Ready == phase = "ready"

\* The sum of column `field` over the rows of `frame` at the positions `at`.
RECURSIVE Total(_, _, _)
Total(frame, at, field) ==
    IF at = {} THEN 0
    ELSE LET i == CHOOSE j \in at : TRUE
         IN  frame[i][field] + Total(frame, at \ {i}, field)

Known(r) == r.Year # NaN

\* The record satisfies the three predicates of the current selection.
Selected(r) ==
    /\ Known(r) /\ r.Year = selected_year
    /\ r.Region \in selected_region
    /\ r.Category \in selected_category

InPriorYear(r) == Known(r) /\ r.Year = selected_year - 1

\* frame holds exactly the rows of df that satisfy Keep, each once.
Exactly(frame, Keep(_)) ==
    /\ Range(frame) = {r \in Range(df) : Keep(r)}
    /\ Len(frame) = Cardinality({i \in DOMAIN df : Keep(df[i])})

Rows(frame) == DOMAIN frame

RowsWith(frame, field, value) == {i \in DOMAIN frame : frame[i][field] = value}

Values(frame, field) == {frame[i][field] : i \in DOMAIN frame}

\* q is the fraction 100 * n / d.
IsPercentOf(q, n, d) == q[2] > 0 /\ q[1] * d = 100 * n * q[2]

\* Summed sales of a product over the filtered view.
ProductTotal(name) ==
    Total(filtered_df, RowsWith(filtered_df, "ProductName", name), "Sales")

\* Position of the first row of the view that names the product.
FirstSeen(name) ==
    CHOOSE i \in DOMAIN filtered_df :
        /\ filtered_df[i].ProductName = name
        /\ \A j \in 1..(i - 1) : filtered_df[j].ProductName # name

Listed == Values(top_products, "ProductName")

(***************************************************************************)
(* C1.  The filtered view is exactly the records of the dataset whose year *)
(* equals the selected year, whose region is among the selected regions    *)
(* and whose category is among the selected categories: nothing else is in *)
(* it, and every record left out fails one of the three.                   *)
(***************************************************************************)
C1_FilterExact ==
    Ready =>
        /\ \A i \in Rows(filtered_df) :
              /\ filtered_df[i] \in Range(df)
              /\ Selected(filtered_df[i])
        /\ \A r \in Range(df) \ Range(filtered_df) : ~Selected(r)
        /\ Len(filtered_df) = Cardinality({i \in Rows(df) : Selected(df[i])})

\* A view that keeps some records and drops one for each of the three reasons.
C1_Witness ==
    /\ Ready
    /\ filtered_df # <<>>
    /\ \E r \in Range(df) : Known(r) /\ r.Year # selected_year
    /\ \E r \in Range(df) : r.Year = selected_year /\ r.Region \notin selected_region
    /\ \E r \in Range(df) :
          /\ r.Year = selected_year
          /\ r.Region \in selected_region
          /\ r.Category \notin selected_category

(***************************************************************************)
(* C2.  The margin percentage is 100 * profit / revenue and is exactly 0   *)
(* when the revenue is 0; the growth percentage is                         *)
(* 100 * (revenue - prior) / prior and is exactly 0 when the prior-year    *)
(* revenue is 0, whatever the signs of the amounts.                        *)
(***************************************************************************)
C2_ZeroSafeRatios ==
    Ready =>
        /\ total_revenue = 0 => margin_pct = Zero
        /\ total_revenue # 0 =>
              IsPercentOf(margin_pct, total_profit, total_revenue)
        /\ prev_revenue = 0 => revenue_growth = Zero
        /\ prev_revenue # 0 =>
              IsPercentOf(revenue_growth, total_revenue - prev_revenue,
                          prev_revenue)

\* No prior-year revenue, a positive current revenue and a loss.
C2_Witness ==
    /\ Ready
    /\ prev_revenue = 0
    /\ total_revenue > 0
    /\ total_profit < 0
    /\ margin_pct[1] < 0
    /\ revenue_growth = Zero

(***************************************************************************)
(* C3.  The comparison view is exactly the records of the dataset of the   *)
(* year before the selected one, whatever the regions and categories       *)
(* selected: a change of regions or categories under the same year leaves  *)
(* it and the prior-year revenue as they were, while the current revenue   *)
(* is the one of the filtered view.                                        *)
(***************************************************************************)
C3_ComparisonIgnoresFilters ==
    [][ /\ Ready' =>
              /\ Exactly(previous_df, InPriorYear)'
              /\ prev_revenue' = Total(previous_df', Rows(previous_df'), "Sales")
              /\ total_revenue' = Total(filtered_df', Rows(filtered_df'), "Sales")
        /\ (Ready /\ selected_year' = selected_year) =>
              /\ previous_df' = previous_df
              /\ prev_revenue' = prev_revenue ]_vars

\* Nothing is selected, and the previous year still has its records.
C3_Witness ==
    /\ Ready
    /\ selected_region = {}
    /\ selected_category = {}
    /\ previous_df # <<>>
    /\ prev_revenue > 0
    /\ total_revenue = 0

(***************************************************************************)
(* C4.  The top products are min(5, number of distinct product names of    *)
(* the view) entries; each pairs a product of the view with the sum of its *)
(* sales in the view; the sums never increase along the sequence; and no   *)
(* product left out has a larger sum than a product listed.                *)
(***************************************************************************)
C4_TopProducts ==
    Ready =>
        LET names == Values(filtered_df, "ProductName")
        IN  /\ Len(top_products) = Min(TopN, Cardinality(names))
            /\ \A i \in Rows(top_products) :
                  /\ top_products[i].ProductName \in names
                  /\ top_products[i].Sales =
                         ProductTotal(top_products[i].ProductName)
            /\ \A i, j \in Rows(top_products) :
                  i < j => top_products[i].Sales >= top_products[j].Sales
            /\ \A name \in names \ Listed : \A i \in Rows(top_products) :
                  ProductTotal(name) <= top_products[i].Sales

\* More than five products, one of them spread over several rows, and the
\* cut falls between products of equal sales.
C4_Witness ==
    /\ Ready
    /\ Cardinality(Values(filtered_df, "ProductName")) > TopN
    /\ Len(filtered_df) > Cardinality(Values(filtered_df, "ProductName"))
    /\ Len(top_products) = TopN
    /\ \E name \in Values(filtered_df, "ProductName") \ Listed :
          ProductTotal(name) = top_products[TopN].Sales

(***************************************************************************)
(* C5.  The category profits add up to the total profit, the regional      *)
(* sales to the total revenue and the regional profits to the total        *)
(* profit; each rollup has one entry for every category / region present   *)
(* in the view and no other.                                               *)
(***************************************************************************)
C5_RollupsAddUp ==
    Ready =>
        /\ Total(category, Rows(category), "Profit") = total_profit
        /\ Total(region, Rows(region), "Sales") = total_revenue
        /\ Total(region, Rows(region), "Profit") = total_profit
        /\ Values(category, "Category") = Values(filtered_df, "Category")
        /\ Len(category) = Cardinality(Values(filtered_df, "Category"))
        /\ Values(region, "Region") = Values(filtered_df, "Region")
        /\ Len(region) = Cardinality(Values(filtered_df, "Region"))

\* Two categories and two regions, one of them with several records.
C5_Witness ==
    /\ Ready
    /\ Len(category) = 2
    /\ Len(region) = 2
    /\ Len(filtered_df) > 2
    /\ total_profit < 0
    /\ total_revenue > 0

(***************************************************************************)
(* C6.  With no region selected, or no category selected, the run          *)
(* completes with an empty view: revenue, profit and margin are 0 and the  *)
(* four rollups are empty.                                                 *)
(***************************************************************************)
C6_EmptySelection ==
    (Ready /\ (selected_region = {} \/ selected_category = {})) =>
        /\ filtered_df = <<>>
        /\ total_revenue = 0
        /\ total_profit = 0
        /\ margin_pct = Zero
        /\ monthly = <<>>
        /\ category = <<>>
        /\ region = <<>>
        /\ top_products = <<>>

\* The selected year has records, and the empty region selection hides them.
C6_Witness ==
    /\ Ready
    /\ selected_region = {}
    /\ selected_category # {}
    /\ \E r \in Range(df) : r.Year = selected_year

(***************************************************************************)
(* C7.  The loaded dataset holds no two records equal in every field.      *)
(* The duplicates are dropped from the text rows, before the dates are     *)
(* parsed: two rows that differ only in the spelling of the date become    *)
(* equal records.                                                          *)
(***************************************************************************)
C7_NoEqualRecords ==
    phase # "start" =>
        \A i, j \in Rows(df) : i # j => df[i] # df[j]

(***************************************************************************)
(* C8.  Once loaded the dataset never changes, and after every run the     *)
(* view and every aggregate are those of the dataset under the selection   *)
(* of that run.                                                            *)
(***************************************************************************)
ViewIsCurrent ==
    LET view == {i \in Rows(df) : Selected(df[i])}
        prior == {i \in Rows(df) : InPriorYear(df[i])}
    IN  /\ Exactly(filtered_df, Selected)
        /\ selected_year \in Range(years)
        /\ selected_region \subseteq regions
        /\ selected_category \subseteq categories
        /\ total_revenue = Total(df, view, "Sales")
        /\ total_profit = Total(df, view, "Profit")
        /\ prev_revenue = Total(df, prior, "Sales")
        /\ (total_revenue # 0 =>
               IsPercentOf(margin_pct, Total(df, view, "Profit"),
                           Total(df, view, "Sales")))
        /\ (prev_revenue # 0 =>
               IsPercentOf(revenue_growth,
                           Total(df, view, "Sales") - Total(df, prior, "Sales"),
                           Total(df, prior, "Sales")))
        /\ \A i \in Rows(category) :
              category[i].Profit =
                  Total(df, {j \in view : df[j].Category = category[i].Category},
                        "Profit")
        /\ \A i \in Rows(region) :
              region[i].Sales =
                  Total(df, {j \in view : df[j].Region = region[i].Region},
                        "Sales")
        /\ \A i \in Rows(monthly) :
              monthly[i].Sales =
                  Total(df, {j \in view :
                                /\ df[j].OrderDate.y = monthly[i].OrderDate.y
                                /\ df[j].OrderDate.m = monthly[i].OrderDate.m},
                        "Sales")
        /\ Total(monthly, Rows(monthly), "Sales") = Total(df, view, "Sales")
        /\ \A i \in Rows(top_products) :
              top_products[i].Sales =
                  Total(df, {j \in view :
                                df[j].ProductName = top_products[i].ProductName},
                        "Sales")

C8_RerunsAreFresh ==
    /\ [](Ready => ViewIsCurrent)
    /\ [][Ready => (df' = df /\ Ready')]_vars

\* Year, regions and categories have all been changed from their defaults,
\* and the view still has records.
C8_Witness ==
    /\ Ready
    /\ selected_year # years[Len(years)]
    /\ selected_region # regions
    /\ selected_category # categories
    /\ filtered_df # <<>>
    /\ Len(filtered_df) < Len(df)

(***************************************************************************)
(* C9.  As claimed: products of equal summed sales appear in the order in  *)
(* which their names first occur in the view, and the cut to five entries  *)
(* follows that order.                                                     *)
(***************************************************************************)
C9_TiesInFirstSeenOrder ==
    Ready =>
        /\ \A i, j \in Rows(top_products) :
              (i < j /\ top_products[i].Sales = top_products[j].Sales) =>
                  FirstSeen(top_products[i].ProductName)
                      < FirstSeen(top_products[j].ProductName)
        /\ \A name \in Values(filtered_df, "ProductName") \ Listed :
              \A i \in Rows(top_products) :
                  top_products[i].Sales = ProductTotal(name) =>
                      FirstSeen(top_products[i].ProductName) < FirstSeen(name)

(***************************************************************************)
(* C9, amended.  Products of equal summed sales appear in no fixed order;  *)
(* the order is decided by the sums alone: no product is listed twice, and *)
(* of two products with different sums the one with the smaller sum is     *)
(* listed only behind the other.                                           *)
(***************************************************************************)
C9_OrderBySumsAlone ==
    Ready =>
        /\ \A i, j \in Rows(top_products) :
              i # j => top_products[i].ProductName # top_products[j].ProductName
        /\ \A j \in Rows(top_products) :
              \A name \in Values(filtered_df, "ProductName") :
                  ProductTotal(name) > ProductTotal(top_products[j].ProductName)
                      => \E i \in 1..(j - 1) : top_products[i].ProductName = name

\* Two listed products of equal sales stand against the order in which the
\* view names them, and the cut has dropped a product.
C9_Witness ==
    /\ Ready
    /\ Cardinality(Values(filtered_df, "ProductName")) > TopN
    /\ \E i, j \in Rows(top_products) :
          /\ i < j
          /\ top_products[i].Sales = top_products[j].Sales
          /\ FirstSeen(top_products[j].ProductName)
                 < FirstSeen(top_products[i].ProductName)

(***************************************************************************)
(* C10.  The message says "increased" exactly when the growth percentage   *)
(* is above 0 and "declined" otherwise; with no prior-year revenue it      *)
(* reports a decline of 0.0%.                                              *)
(***************************************************************************)
C10_GrowthDirection ==
    Ready =>
        /\ message.verb \in {"increased", "declined"}
        /\ message.verb = "increased" <=> revenue_growth[1] > 0
        /\ message.verb = "increased" <=>
              (prev_revenue # 0 /\
                  (total_revenue - prev_revenue) * prev_revenue > 0)
        /\ prev_revenue = 0 =>
              /\ message.verb = "declined"
              /\ message.widget = "error"
              /\ message.tenths = 0

\* The earliest year of the dataset is selected and has revenue.
C10_Witness ==
    /\ Ready
    /\ selected_year = years[1]
    /\ Len(years) > 1
    /\ total_revenue > 0
    /\ prev_revenue = 0
    /\ message = [widget |-> "error", verb |-> "declined", tenths |-> 0]

====
